---- MODULE Spec2Model ----
(***************************************************************************)
(* The DatabaseModal of superset-frontend                                  *)
(* (src/views/CRUD/data/database/DatabaseModal/index.tsx): the draft       *)
(* reducer dbReducer, the two effects of the component, and its handlers   *)
(* (field changes, test connection, close, save).                          *)
(*                                                                         *)
(* JavaScript values are tagged tuples of strings: <<"str", c1, .., cn>>   *)
(* is the string c1..cn (one character per element), <<"bool", "true">>   *)
(* a boolean, <<"num", "1">> a number, <<"json", "x">> an object,          *)
(* <<"undefined">> the value undefined.  A draft (Partial<DatabaseObject>) *)
(* is a function from the field names it holds to values; a field may be   *)
(* present with the value undefined, as in JavaScript.                     *)
(***************************************************************************)
EXTENDS Naturals, Sequences, FiniteSets, TLC

VARIABLES
    show,        \* prop show
    database,    \* prop database (Null: create mode)
    db,          \* the draft: state of useReducer(dbReducer, database)
    tabKey,      \* state of useState(DEFAULT_TAB_KEY)
    dbLoading,   \* useSingleViewResource state.loading
    dbFetched,   \* useSingleViewResource state.resource
    fetching,    \* ids of the fetchResource calls in flight
    saving,      \* number of createResource / updateResource calls in flight
    mounted,     \* the mount effects have run
    closed,      \* onClose has run and the modal has not been shown since
    handler,     \* the handler (or effect) that ran last
    calls,       \* what the last handler called, in order
    action       \* the last action dispatched to dbReducer (SpecReducer)

vars == <<show, database, db, tabKey, dbLoading, dbFetched, fetching, saving,
          mounted, closed, handler, calls, action>>

----------------------------------------------------------------------------
(* Bounds *)

\* longest database_name a field-change action carries in SpecReducer
MaxStrLen == 2
\* most create/update calls in flight at once
MaxPending == 1

----------------------------------------------------------------------------
(* JavaScript values *)

Undefined == <<"undefined">>
True == <<"bool", "true">>
False == <<"bool", "false">>
Json == <<"json", "x">>
Id1 == <<"num", "1">>

Str(s) == <<"str">> \o s

IsStr(v) == v[1] = "str"

Chars(v) == Tail(v)

\* JavaScript truthiness: "", false, 0 and undefined are falsy
Truthy(v) ==
    CASE v[1] = "str" -> Len(v) > 1
      [] v[1] = "bool" -> v[2] = "true"
      [] v[1] = "num" -> v[2] # "0"
      [] v[1] = "json" -> TRUE
      [] OTHER -> FALSE

\* a || b
OrElse(a, b) == IF Truthy(a) THEN a ELSE b

\* String.prototype.trim on the characters of a string
RECURSIVE TrimSeq(_)
TrimSeq(s) ==
    IF s = <<>> THEN s
    ELSE IF Head(s) = " " THEN TrimSeq(Tail(s))
    ELSE IF s[Len(s)] = " " THEN TrimSeq(SubSeq(s, 1, Len(s) - 1))
    ELSE s

\* v?.trim(): undefined stays undefined, a string is trimmed
TrimOpt(v) == IF IsStr(v) THEN Str(TrimSeq(Chars(v))) ELSE Undefined

----------------------------------------------------------------------------
(* Drafts *)

\* null, as a draft or as the database prop
Null == [null |-> <<"null">>]

\* {}
EmptyDraft == [k \in {} |-> Undefined]

\* state?.f
Get(state, f) ==
    IF state = Null \/ f \notin DOMAIN state THEN Undefined ELSE state[f]

\* { ...a, ...b }
Merge(a, b) ==
    [k \in DOMAIN a \cup DOMAIN b |-> IF k \in DOMAIN b THEN b[k] ELSE a[k]]

\* { [name]: v }
Single(name, v) == [k \in {name} |-> v]

\* variant: a rest that keeps the field
Without_Keep(state, f) == state

\* the object without the field f
Without(state, f) == [k \in DOMAIN state \ {f} |-> state[k]]

----------------------------------------------------------------------------
(* dbReducer *)

ActionTypes ==
    {"textChange", "inputChange", "editorChange", "fetched", "initialLoad",
     "reset"}

\* a DBReducerActionType: the payload of a field change is (name, ptype,
\* checked, value, json), that of a bulk merge is the record `payload`
Action(type, name, ptype, checked, value, json, payload) ==
    [type |-> type, name |-> name, ptype |-> ptype, checked |-> checked,
     value |-> value, json |-> json, payload |-> payload]

InputChange(ptype, name, checked, value) ==
    Action("inputChange", name, ptype, checked, value, Undefined, EmptyDraft)

TextChange(name, value) ==
    Action("textChange", name, "", Undefined, value, Undefined, EmptyDraft)

EditorChange(name, json) ==
    Action("editorChange", name, "", Undefined, Undefined, json, EmptyDraft)

BulkMerge(type, payload) ==
    Action(type, "", "", Undefined, Undefined, Undefined, payload)

Reset == Action("reset", "", "", Undefined, Undefined, Undefined, EmptyDraft)

NoAction == Action("none", "", "", Undefined, Undefined, Undefined, EmptyDraft)

\* variant: the base without the trim of database_name
TrimmedState_NoTrim(state) ==
    Merge(IF state = Null THEN EmptyDraft ELSE state,
          [database_name |-> OrElse(Get(state, "database_name"), Str(<<>>)),
           sqlalchemy_uri |-> OrElse(Get(state, "sqlalchemy_uri"), Str(<<>>))])

\* variant: sqlalchemy_uri copied without the `|| ''`
TrimmedState_UriAsIs(state) ==
    Merge(IF state = Null THEN EmptyDraft ELSE state,
          [database_name |->
               OrElse(TrimOpt(Get(state, "database_name")), Str(<<>>)),
           sqlalchemy_uri |-> Get(state, "sqlalchemy_uri")])

\* const trimmedState = { ...(state || {}), database_name: ..., sqlalchemy_uri: ... }
TrimmedState(state) ==
    Merge(IF state = Null THEN EmptyDraft ELSE state,
          [database_name |->
               OrElse(TrimOpt(Get(state, "database_name")), Str(<<>>)),
           sqlalchemy_uri |-> OrElse(Get(state, "sqlalchemy_uri"), Str(<<>>))])

\* variant: an inputChange that stores value for a checkbox too
InputChangeValue_AlwaysValue(a) == a.value

\* case ActionType.inputChange: checked for a checkbox, value otherwise
InputChangeValue(a) == IF a.ptype = "checkbox" THEN a.checked ELSE a.value

\* variant: a reset that returns null
ResetDraft_Null == Null

\* case ActionType.reset / default
ResetDraft == EmptyDraft

dbReducer(state, a) ==
    CASE a.type = "inputChange" ->
             Merge(TrimmedState(state), Single(a.name, InputChangeValue(a)))
      [] a.type = "editorChange" ->
             Merge(TrimmedState(state), Single(a.name, a.json))
      [] a.type = "textChange" ->
             Merge(TrimmedState(state), Single(a.name, a.value))
      [] a.type \in {"initialLoad", "fetched"} ->
             Merge(TrimmedState(state), a.payload)
      [] OTHER -> ResetDraft

----------------------------------------------------------------------------
(* The caller's records and the backend's answers *)

\* the record of the spec's example: { id, database_name, sqlalchemy_uri, backend }
RecA ==
    [id |-> Id1, database_name |-> Str(<<"a">>),
     sqlalchemy_uri |-> Str(<<"u">>), backend |-> Str(<<"b">>)]

\* a record whose name carries whitespace, without id and sqlalchemy_uri
RecB == [database_name |-> Str(<<" ", "a">>)]

Records == {RecA, RecB}

\* what fetchResource(id) resolves with: the full record, or one that lacks
\* the optional fields
FetchedRecord(id, full) ==
    IF full
    THEN [id |-> id, database_name |-> Str(<<"z">>),
          sqlalchemy_uri |-> Str(<<"v">>), impersonate_user |-> True,
          server_cert |-> Str(<<"c">>), extra |-> Str(<<"x">>),
          backend |-> Str(<<"b">>)]
    ELSE [id |-> id, database_name |-> Str(<<"z">>)]

----------------------------------------------------------------------------
(* The component *)

DEFAULT_TAB_KEY == "1"

TabKeys == {"1", "2"}

\* a call the component makes: a dispatch, a prop callback or a collaborator
Call(name, id, arg) == [call |-> name, id |-> id, arg |-> arg]

Plain(name) == Call(name, Undefined, EmptyDraft)

Handler(name, result, supplied) ==
    [name |-> name, result |-> result, onDatabaseAdd |-> supplied]

\* variant: edit mode derived from the draft's id
IsEditMode_FromDraft(d, draft) == Truthy(Get(draft, "id"))

\* const isEditMode = database !== null
IsEditMode(d, draft) == d # Null

\* variant: disableSave without the trim
DisableSave_NoTrim(draft) ==
    ~(Truthy(Get(draft, "database_name"))
      /\ Truthy(Get(draft, "sqlalchemy_uri")))

\* const disableSave = !(db?.database_name?.trim() && db?.sqlalchemy_uri)
DisableSave(draft) ==
    ~(Truthy(TrimOpt(Get(draft, "database_name")))
      /\ Truthy(Get(draft, "sqlalchemy_uri")))

\* variant: an optional field sent as it is
Optional_Raw(v) == v

\* x || undefined, for the optional fields of the connection
Optional(v) == OrElse(v, Undefined)

\* const connection = { ... } of testConnection
Connection(draft) ==
    [sqlalchemy_uri |-> OrElse(Get(draft, "sqlalchemy_uri"), Str(<<>>)),
     database_name |-> Optional(TrimOpt(Get(draft, "database_name"))),
     impersonate_user |-> Optional(Get(draft, "impersonate_user")),
     extra |-> Optional(Get(draft, "extra")),
     encrypted_extra |-> Optional(Get(draft, "encrypted_extra")),
     server_cert |-> Optional(Get(draft, "server_cert"))]

\* variant: the whole fetched record as the payload
FetchedPayload_Whole(r) == r

\* the payload of the 'fetched' dispatch: four fields destructured from dbFetched
FetchedPayload(r) ==
    [extra |-> Get(r, "extra"),
     impersonate_user |-> Get(r, "impersonate_user"),
     server_cert |-> Get(r, "server_cert"),
     sqlalchemy_uri |-> Get(r, "sqlalchemy_uri")]

\* useSingleViewResource: fetchResource(id) is called
HookFetchStarted(id) ==
    /\ fetching' = Append(fetching, id)
    /\ dbLoading' = TRUE

\* useSingleViewResource: the i-th fetch in flight settles, with the record
\* as the resource or with a failure
HookFetchSettled(i, ok, full) ==
    /\ fetching' = SubSeq(fetching, 1, i - 1)
                   \o SubSeq(fetching, i + 1, Len(fetching))
    /\ dbLoading' = FALSE
    /\ dbFetched' = IF ok THEN FetchedRecord(fetching[i], full) ELSE dbFetched

\* variant: fetchDB without the check of dbLoading
FetchDBStarts_NoLoadingCheck(d, draft, loading) ==
    IsEditMode(d, draft) /\ Truthy(Get(d, "id"))

\* variant: fetchDB without the check of database.id
FetchDBStarts_NoIdCheck(d, draft, loading) ==
    IsEditMode(d, draft) /\ ~loading

\* fetchDB calls fetchResource
FetchDBStarts(d, draft, loading) ==
    IsEditMode(d, draft) /\ Truthy(Get(d, "id")) /\ ~loading

\* variant: the initial load only while the modal is hidden
LoadsRecord_OnlyHidden(s, d) == d # Null /\ ~s

\* if (database): the effect dispatches initialLoad
LoadsRecord(s, d) == d # Null

\* useEffect(..., [show, database]), run with the props (s, d)
PropsEffect(s, d) ==
    LET starts == d # Null /\ s /\ FetchDBStarts(d, db, dbLoading)
        id == OrElse(Get(d, "id"), <<"num", "0">>)
    IN  /\ db' = IF LoadsRecord(s, d)
                 THEN dbReducer(db, BulkMerge("initialLoad", d))
                 ELSE db
        /\ tabKey' = IF s THEN DEFAULT_TAB_KEY ELSE tabKey
        /\ IF starts
           THEN HookFetchStarted(id)
           ELSE UNCHANGED <<fetching, dbLoading>>
        /\ calls' =
               (IF LoadsRecord(s, d)
                THEN <<Call("setDB.initialLoad", Undefined, d)>> ELSE <<>>)
               \o (IF s THEN <<Plain("setTabKey")>> ELSE <<>>)
               \o (IF starts
                   THEN <<Call("fetchResource", id, EmptyDraft)>> ELSE <<>>)

\* the first render and its effects
Mount ==
    /\ ~mounted
    /\ mounted' = TRUE
    /\ PropsEffect(show, database)
    /\ handler' = Handler("mount", FALSE, FALSE)
    /\ UNCHANGED <<show, database, dbFetched, saving, closed, action>>

\* the caller renders the component with the props (s, d); `fresh`: the record
\* is a new object, so the effect's dependencies differ even if it is equal
SetProps(s, d, fresh) ==
    /\ mounted
    /\ IF fresh
       THEN s = show /\ d = database /\ d # Null
       ELSE s # show \/ d # database
    /\ show' = s
    /\ database' = d
    /\ PropsEffect(s, d)
    /\ closed' = (closed /\ ~s)
    /\ handler' = Handler("render", FALSE, FALSE)
    /\ UNCHANGED <<dbFetched, saving, mounted, action>>

\* onChange(type, payload): setDB({ type, payload })
OnChange(a) ==
    /\ mounted /\ show
    /\ db' = dbReducer(db, a)
    /\ calls' = <<Call("setDB." \o a.type, Undefined, EmptyDraft)>>
    /\ closed' = FALSE
    /\ handler' = Handler("onChange", FALSE, FALSE)
    /\ UNCHANGED <<show, database, tabKey, dbLoading, dbFetched, fetching,
                   saving, mounted, action>>

\* what the form's controls can send
InputEvents ==
    {InputChange("text", "database_name", False, Str(v)) :
         v \in {<<"a", " ">>, <<" ">>}}
    \cup {InputChange("text", "sqlalchemy_uri", False, Str(v)) :
              v \in {<<"u">>, <<>>}}
    \cup {InputChange("checkbox", "impersonate_user", c, Str(<<"o">>)) :
              c \in {True, False}}

TextEvents == {TextChange("server_cert", Str(<<"c">>))}

EditorEvents == {EditorChange("extra", Str(<<"x">>))}

OnInputChange == \E a \in InputEvents : OnChange(a)

OnTextChange == \E a \in TextEvents : OnChange(a)

OnEditorChange == \E a \in EditorEvents : OnChange(a)

\* tabChange(key)
TabChange ==
    /\ mounted /\ show
    /\ \E key \in TabKeys : tabKey' = key
    /\ calls' = <<Plain("setTabKey")>>
    /\ closed' = FALSE
    /\ handler' = Handler("tabChange", FALSE, FALSE)
    /\ UNCHANGED <<show, database, db, dbLoading, dbFetched, fetching, saving,
                   mounted, action>>

\* testConnection()
\* variant: a test of the connection that returns to the first tab
TestConnection_ResetsTab ==
    /\ mounted /\ show
    /\ calls' =
           IF ~Truthy(Get(db, "sqlalchemy_uri"))
           THEN <<Plain("addDangerToast")>>
           ELSE <<Call("testDatabaseConnection", Undefined, Connection(db))>>
    /\ tabKey' = DEFAULT_TAB_KEY
    /\ closed' = FALSE
    /\ handler' = Handler("testConnection", FALSE, FALSE)
    /\ UNCHANGED <<show, database, db, dbLoading, dbFetched, fetching,
                   saving, mounted, action>>

TestConnection ==
    /\ mounted /\ show
    /\ calls' =
           IF ~Truthy(Get(db, "sqlalchemy_uri"))
           THEN <<Plain("addDangerToast")>>
           ELSE <<Call("testDatabaseConnection", Undefined, Connection(db))>>
    /\ closed' = FALSE
    /\ handler' = Handler("testConnection", FALSE, FALSE)
    /\ UNCHANGED <<show, database, db, tabKey, dbLoading, dbFetched, fetching,
                   saving, mounted, action>>

\* variant: onHide() twice
CloseCalls_HideTwice == <<Plain("setDB.reset"), Plain("onHide"), Plain("onHide")>>

\* variant: onHide() before the reset
CloseCalls_HideFirst == <<Plain("onHide"), Plain("setDB.reset")>>

\* onClose(): setDB({ type: reset }); onHide()
CloseCalls == <<Plain("setDB.reset"), Plain("onHide")>>

\* the cancel of the modal: onClose()
OnClose ==
    /\ mounted /\ show
    /\ db' = dbReducer(db, Reset)
    /\ calls' = CloseCalls
    /\ closed' = TRUE
    /\ handler' = Handler("onClose", FALSE, FALSE)
    /\ UNCHANGED <<show, database, tabKey, dbLoading, dbFetched, fetching,
                   saving, mounted, action>>

\* onSave(), reachable while the primary button is enabled
OnSave ==
    /\ mounted /\ show
    /\ ~DisableSave(db)
    /\ saving < MaxPending
    /\ IF IsEditMode(database, db)
       THEN IF Truthy(Get(db, "id"))
            THEN /\ calls' = <<Call("updateResource", db["id"],
                                    Without(db, "id"))>>
                 /\ saving' = saving + 1
                 /\ db' = db
            ELSE /\ calls' = <<>>
                 /\ UNCHANGED <<saving, db>>
       ELSE IF db # Null
            THEN /\ db' = Merge(db, Single("database_name",
                                    TrimOpt(Get(db, "database_name"))))
                 /\ calls' = <<Call("createResource", Undefined, db')>>
                 /\ saving' = saving + 1
            ELSE /\ calls' = <<>>
                 /\ UNCHANGED <<saving, db>>
    /\ closed' = FALSE
    /\ handler' = Handler("onSave", FALSE, FALSE)
    /\ UNCHANGED <<show, database, tabKey, dbLoading, dbFetched, fetching,
                   mounted, action>>

\* variant: a .then that does not look at the result
SaveResolved_AlwaysClose(result, supplied) ==
    /\ saving > 0
    /\ saving' = saving - 1
    /\ db' = dbReducer(db, Reset)
    /\ calls' = (IF supplied THEN <<Plain("onDatabaseAdd")>> ELSE <<>>)
                \o CloseCalls
    /\ closed' = TRUE
    /\ handler' = Handler("saveResolved", result, supplied)
    /\ UNCHANGED <<show, database, tabKey, dbLoading, dbFetched, fetching,
                   mounted, action>>

\* the .then of updateResource / createResource; `supplied`: the caller
\* passed onDatabaseAdd
SaveResolved(result, supplied) ==
    /\ saving > 0
    /\ saving' = saving - 1
    /\ IF result
       THEN /\ db' = dbReducer(db, Reset)
            /\ calls' = (IF supplied THEN <<Plain("onDatabaseAdd")>> ELSE <<>>)
                        \o CloseCalls
            /\ closed' = TRUE
       ELSE /\ calls' = <<>>
            /\ UNCHANGED <<db, closed>>
    /\ handler' = Handler("saveResolved", result, supplied)
    /\ UNCHANGED <<show, database, tabKey, dbLoading, dbFetched, fetching,
                   mounted, action>>

\* variant: a failed fetch that resets the draft
FetchResolved_ResetOnFailure(i, ok, full) ==
    /\ i \in 1..Len(fetching)
    /\ HookFetchSettled(i, ok, full)
    /\ IF ok
       THEN /\ db' = dbReducer(db, BulkMerge("fetched",
                                             FetchedPayload(dbFetched')))
            /\ calls' = <<Call("setDB.fetched", Undefined,
                               FetchedPayload(dbFetched'))>>
       ELSE /\ calls' = <<Plain("addDangerToast"), Plain("setDB.reset")>>
            /\ db' = dbReducer(db, Reset)
    /\ handler' = Handler("fetchResolved", ok, FALSE)
    /\ UNCHANGED <<show, database, tabKey, saving, mounted, closed, action>>

\* fetchResource(id) settles; on success useEffect(..., [dbFetched]) runs
FetchResolved(i, ok, full) ==
    /\ i \in 1..Len(fetching)
    /\ HookFetchSettled(i, ok, full)
    /\ IF ok
       THEN /\ db' = dbReducer(db, BulkMerge("fetched",
                                             FetchedPayload(dbFetched')))
            /\ calls' = <<Call("setDB.fetched", Undefined,
                               FetchedPayload(dbFetched'))>>
       ELSE /\ calls' = <<Plain("addDangerToast")>>
            /\ db' = db
    /\ handler' = Handler("fetchResolved", ok, FALSE)
    /\ UNCHANGED <<show, database, tabKey, saving, mounted, closed, action>>

Init ==
    /\ show \in BOOLEAN
    /\ database \in Records \cup {Null}
    /\ db = database
    /\ tabKey = DEFAULT_TAB_KEY
    /\ dbLoading = FALSE
    /\ dbFetched = Null
    /\ fetching = <<>>
    /\ saving = 0
    /\ mounted = FALSE
    /\ closed = FALSE
    /\ handler = Handler("none", FALSE, FALSE)
    /\ calls = <<>>
    /\ action = NoAction

Next ==
    \/ Mount
    \/ \E s \in BOOLEAN, d \in Records \cup {Null}, fresh \in BOOLEAN :
           SetProps(s, d, fresh)
    \/ OnInputChange
    \/ OnTextChange
    \/ OnEditorChange
    \/ TabChange
    \/ TestConnection
    \/ OnClose
    \/ OnSave
    \/ \E result \in BOOLEAN, supplied \in BOOLEAN :
           SaveResolved(result, supplied)
    \/ \E i \in 1..Len(fetching), ok \in BOOLEAN, full \in BOOLEAN :
           FetchResolved(i, ok, full)

Spec == Init /\ [][Next]_vars

----------------------------------------------------------------------------
(* dbReducer on its own: any starting draft, any sequence of actions *)

\* the names a field-change action carries here
ReducerFields == {"database_name", "sqlalchemy_uri", "impersonate_user"}

\* the strings of at most MaxStrLen characters over a blank and a letter
NameStrings ==
    {Str(s) : s \in UNION {[1..n -> {" ", "a"}] : n \in 0..MaxStrLen}}

\* payload.value (value?: string) by field
FieldValues(name) ==
    IF name = "database_name"
    THEN NameStrings \cup {Undefined}
    ELSE {Str(<<>>), Str(<<"u">>), Undefined}

\* database_name is a string in DatabaseObject (dbReducer calls trim() on
\* it), so a checkbox does not carry that name
ReducerInputChanges ==
    UNION {{InputChange("text", name, False, v) : v \in FieldValues(name)} :
               name \in ReducerFields}
    \cup {InputChange("checkbox", name, c, Str(<<"o">>)) :
              name \in ReducerFields \ {"database_name"}, c \in {True, False}}

ReducerTextChanges ==
    UNION {{TextChange(name, v) : v \in FieldValues(name)} :
               name \in ReducerFields}

ReducerEditorChanges ==
    {EditorChange(name, j) : name \in {"extra"}, j \in {Json, Undefined}}

ReducerBulkMerges ==
    {BulkMerge(type, payload) :
         type \in {"initialLoad", "fetched"},
         payload \in {RecA, RecB, FetchedPayload(FetchedRecord(Id1, FALSE))}}

StartDrafts ==
    {Null, EmptyDraft, RecA, RecB,
     [database_name |-> Str(<<"a", " ">>), sqlalchemy_uri |-> Undefined]}

FieldChangeTypes == {"textChange", "inputChange", "editorChange"}

Dispatch(a) ==
    /\ db' = dbReducer(db, a)
    /\ action' = a
    /\ UNCHANGED <<show, database, tabKey, dbLoading, dbFetched, fetching,
                   saving, mounted, closed, handler, calls>>

ReduceInputChange == \E a \in ReducerInputChanges : Dispatch(a)

ReduceTextChange == \E a \in ReducerTextChanges : Dispatch(a)

ReduceEditorChange == \E a \in ReducerEditorChanges : Dispatch(a)

ReduceBulkMerge == \E a \in ReducerBulkMerges : Dispatch(a)

ReduceReset == Dispatch(Reset)

InitReducer ==
    /\ db \in StartDrafts
    /\ action = NoAction
    /\ show = FALSE
    /\ database = Null
    /\ tabKey = DEFAULT_TAB_KEY
    /\ dbLoading = FALSE
    /\ dbFetched = Null
    /\ fetching = <<>>
    /\ saving = 0
    /\ mounted = FALSE
    /\ closed = FALSE
    /\ handler = Handler("none", FALSE, FALSE)
    /\ calls = <<>>

NextReducer ==
    \/ ReduceInputChange
    \/ ReduceTextChange
    \/ ReduceEditorChange
    \/ ReduceBulkMerge
    \/ ReduceReset

SpecReducer == InitReducer /\ [][NextReducer]_vars

----------------------------------------------------------------------------
(* Properties *)

\* how often the last handler made the call `name`
Count(name) == Cardinality({i \in DOMAIN calls : calls[i].call = name})

\* the call `first` was made, and before every call `second`
Before(first, second) ==
    \E i \in DOMAIN calls :
        /\ calls[i].call = first
        /\ \A j \in DOMAIN calls : calls[j].call = second => i < j

\* the string has no leading or trailing whitespace
NoOuterWhitespace(v) ==
    IsStr(v) =>
        (Len(v) > 1 => (v[2] # " " /\ v[Len(v)] # " "))

\* the field is absent, undefined, or only whitespace
NameEmpty(draft) ==
    \/ draft = Null
    \/ "database_name" \notin DOMAIN draft
    \/ draft["database_name"] = Undefined
    \/ \A i \in 2..Len(draft["database_name"]) :
           draft["database_name"][i] = " "

UriEmpty(draft) ==
    \/ draft = Null
    \/ "sqlalchemy_uri" \notin DOMAIN draft
    \/ draft["sqlalchemy_uri"] \in {Undefined, Str(<<>>)}

FetchedFields ==
    {"sqlalchemy_uri", "impersonate_user", "server_cert", "extra"}

OptionalFields ==
    {"database_name", "impersonate_user", "extra", "encrypted_extra",
     "server_cert"}

SavedOk == handler.name = "saveResolved" /\ handler.result

SavedFailed == handler.name = "saveResolved" /\ ~handler.result

\* C1: while the modal is closed (onClose has run, show is false, it has not
\* been shown again) the draft is {}.
C1_DraftEmptyWhileClosed == (closed /\ ~show) => db = EmptyDraft

\* C2 as stated: after a field-change action the draft's database_name has
\* no leading or trailing whitespace and its sqlalchemy_uri is not undefined.
C2_AlwaysNormalized ==
    action.type \in FieldChangeTypes =>
        /\ NoOuterWhitespace(Get(db, "database_name"))
        /\ Get(db, "sqlalchemy_uri") # Undefined

\* C2 amended: after a field-change action, database_name is a string
\* without leading or trailing whitespace unless the action named
\* database_name, and sqlalchemy_uri is not undefined unless the action named
\* sqlalchemy_uri; the field the action names holds the action's value as
\* given, untrimmed or undefined as it may be.
C2_NormalizedUnlessTargeted ==
    action.type \in FieldChangeTypes =>
        /\ action.name # "database_name" =>
               /\ IsStr(Get(db, "database_name"))
               /\ NoOuterWhitespace(Get(db, "database_name"))
        /\ action.name # "sqlalchemy_uri" =>
               Get(db, "sqlalchemy_uri") # Undefined
        /\ action.type = "textChange" => db[action.name] = action.value

C2_Witness ==
    /\ action.type = "inputChange"
    /\ action.name = "impersonate_user"
    /\ Get(db, "database_name") = Str(<<"a">>)
    /\ Get(db, "sqlalchemy_uri") = Str(<<>>)

\* C3: a create or update call that resolves truthy invokes onDatabaseAdd
\* (when the caller supplied it) exactly once, before the reset dispatch,
\* which is before onHide; the draft is then {}.  onDatabaseAdd is invoked by
\* nothing else.
C3_SavedThenClosed ==
    /\ SavedOk =>
           /\ handler.onDatabaseAdd =>
                  /\ Count("onDatabaseAdd") = 1
                  /\ Before("onDatabaseAdd", "setDB.reset")
           /\ Count("setDB.reset") = 1
           /\ Count("onHide") = 1
           /\ Before("setDB.reset", "onHide")
           /\ db = EmptyDraft
    /\ Count("onDatabaseAdd") > 0 => SavedOk /\ handler.onDatabaseAdd

C3_Witness ==
    /\ SavedOk
    /\ handler.onDatabaseAdd
    /\ calls[1].call = "onDatabaseAdd"
    /\ db = EmptyDraft

\* C4: a create or update call that resolves falsy dispatches nothing and
\* calls nothing: the draft, the visibility and the tab are those of the
\* moment the result arrived, and a save can be invoked again.
C4_FalsyLeavesOpen ==
    /\ [](SavedFailed /\ show /\ ~DisableSave(db) => ENABLED OnSave)
    /\ [][(handler'.name = "saveResolved" /\ ~handler'.result) =>
              /\ db' = db
              /\ show' = show
              /\ tabKey' = tabKey
              /\ closed' = closed
              /\ calls' = <<>>]_vars

C4_Witness ==
    /\ SavedFailed
    /\ show
    /\ ~DisableSave(db)
    /\ db # EmptyDraft
    /\ calls = <<>>

\* C5: save is disabled exactly when the draft's trimmed database_name is
\* empty or absent or its sqlalchemy_uri is empty or absent, and no create or
\* update call carries a draft with an empty trimmed name or an empty URI.
C5_SaveNeedsNameAndUri ==
    /\ DisableSave(db) <=> (NameEmpty(db) \/ UriEmpty(db))
    /\ \A i \in DOMAIN calls :
           calls[i].call \in {"createResource", "updateResource"} =>
               ~NameEmpty(calls[i].arg) /\ ~UriEmpty(calls[i].arg)

C5_Witness ==
    /\ handler.name = "onSave"
    /\ Count("createResource") = 1
    /\ ~DisableSave(db)

\* C6 as stated: the 'fetched' merge sets the four fetched fields and
\* leaves every other field of the draft as it was.
C6_OnlyFourFieldsChange ==
    [][(handler'.name = "fetchResolved" /\ handler'.result) =>
           /\ \A f \in FetchedFields : db'[f] = Get(dbFetched', f)
           /\ DOMAIN db' = DOMAIN db \cup FetchedFields
           /\ \A f \in DOMAIN db \ FetchedFields : db'[f] = db[f]]_vars

\* C6 amended: the 'fetched' merge sets the four fetched fields (to
\* undefined where the fetched record lacks one) and leaves every other
\* field as it was, except database_name, which becomes its trimmed value
\* ("" when the draft had none).
C6_FourFieldsAndTrimmedName ==
    [][(handler'.name = "fetchResolved" /\ handler'.result) =>
           /\ \A f \in FetchedFields : db'[f] = Get(dbFetched', f)
           /\ DOMAIN db' = DOMAIN db \cup FetchedFields \cup {"database_name"}
           /\ \A f \in DOMAIN db \ (FetchedFields \cup {"database_name"}) :
                  db'[f] = db[f]
           /\ IsStr(db'["database_name"])
           /\ Chars(db'["database_name"]) =
                  (IF IsStr(Get(db, "database_name"))
                   THEN TrimSeq(Chars(db["database_name"]))
                   ELSE <<>>)]_vars

C6_Witness ==
    /\ handler.name = "fetchResolved"
    /\ handler.result
    /\ Get(db, "id") = Id1
    /\ Get(db, "database_name") = Str(<<"a">>)
    /\ Get(db, "sqlalchemy_uri") = Str(<<"v">>)
    /\ Get(db, "impersonate_user") = True

\* C7: test-connection with an empty or absent sqlalchemy_uri reports one
\* error and does not call the tester; with a non-empty one it calls the
\* tester once, with the URI, the trimmed name, and every falsy optional
\* field undefined.
C7_TestConnection ==
    handler.name = "testConnection" =>
        IF UriEmpty(db)
        THEN Count("addDangerToast") = 1 /\ Len(calls) = 1
        ELSE /\ Len(calls) = 1
             /\ calls[1].call = "testDatabaseConnection"
             /\ calls[1].arg["sqlalchemy_uri"] = db["sqlalchemy_uri"]
             /\ IF NameEmpty(db)
                THEN calls[1].arg["database_name"] = Undefined
                ELSE /\ Truthy(calls[1].arg["database_name"])
                     /\ NoOuterWhitespace(calls[1].arg["database_name"])
             /\ \A f \in OptionalFields \ {"database_name"} :
                    calls[1].arg[f] =
                        (IF Truthy(Get(db, f)) THEN db[f] ELSE Undefined)

C7_Witness ==
    /\ handler.name = "testConnection"
    /\ Count("testDatabaseConnection") = 1
    /\ Get(db, "impersonate_user") = False
    /\ "server_cert" \notin DOMAIN db
    /\ calls[1].arg["impersonate_user"] = Undefined
    /\ calls[1].arg["server_cert"] = Undefined

\* C8 as stated: once mounted, the edit-mode flag never changes.
C8_EditModeFixedAtMount ==
    [][mounted => (IsEditMode(database', db') <=> IsEditMode(database, db))]_vars

\* C8 amended: the edit-mode flag is that of the current render: a save
\* takes the update branch exactly when the database prop is non-null at
\* that time, whatever the draft holds.
C8_EditModeFollowsProp ==
    handler.name = "onSave" =>
        /\ Count("updateResource") > 0 => database # Null
        /\ Count("createResource") > 0 => database = Null
        /\ database = Null => Count("createResource") = 1
        /\ (database # Null /\ Truthy(Get(db, "id"))) =>
               Count("updateResource") = 1

C8_Witness ==
    /\ handler.name = "onSave"
    /\ database = Null
    /\ Count("createResource") = 1
    /\ Truthy(Get(calls[1].arg, "id"))

\* C9: a reset action yields {} from every draft, and no dispatched action
\* leaves the draft null.
C9_ResetYieldsEmpty ==
    /\ action.type = "reset" => db = EmptyDraft
    /\ action # NoAction => db # Null

C9_Witness == action.type = "reset" /\ db = EmptyDraft

\* C10: an inputChange of type 'checkbox' stores the boolean `checked` under
\* the named field, any other inputChange stores `value`; besides that field,
\* database_name and sqlalchemy_uri, every field keeps its value.
C10_CheckboxStoresChecked ==
    [][action'.type = "inputChange" =>
           /\ action'.ptype = "checkbox" =>
                  /\ db'[action'.name] = action'.checked
                  /\ db'[action'.name][1] = "bool"
           /\ action'.ptype # "checkbox" =>
                  db'[action'.name] = action'.value
           /\ \A f \in DOMAIN db' \
                      {action'.name, "database_name", "sqlalchemy_uri"} :
                  db # Null /\ f \in DOMAIN db /\ db'[f] = db[f]
           /\ db # Null => DOMAIN db \subseteq DOMAIN db']_vars

C10_Witness ==
    /\ action.type = "inputChange"
    /\ action.ptype = "checkbox"
    /\ action.checked = True
    /\ action.name = "impersonate_user"
    /\ Get(db, "impersonate_user") = True
    /\ Get(db, "id") = Id1

\* the handler that ran last was a run of useEffect(..., [show, database])
PropsEffectRan == handler.name \in {"mount", "render"}

\* C11: at most one detail fetch is in flight; one is started only by a run
\* of the [show, database] effect with the modal shown and a record present,
\* and then it is the only one in flight.
C11_OneFetchInFlight ==
    /\ Len(fetching) <= 1
    /\ dbLoading <=> fetching # <<>>
    /\ Count("fetchResource") > 0 =>
           /\ PropsEffectRan
           /\ show /\ database # Null
           /\ Count("fetchResource") = 1
           /\ Len(fetching) = 1

C11_Witness ==
    /\ handler.name = "render"
    /\ Len(fetching) = 1
    /\ Count("fetchResource") = 0
    /\ show /\ database = RecA

\* C12: a 'fetched' merge is dispatched only while the modal is open for the
\* record the fetch was issued for.
C12_StaleFetchDiscarded ==
    (handler.name = "fetchResolved" /\ Count("setDB.fetched") > 0) =>
        /\ show
        /\ ~closed
        /\ Get(database, "id") = Get(dbFetched, "id")

\* C13: when a detail fetch is started, the same run of the effect has
\* dispatched initialLoad with the caller's record before, and the draft
\* holds every field of that record.
C13_InitialLoadBeforeFetch ==
    Count("fetchResource") > 0 =>
        /\ Before("setDB.initialLoad", "fetchResource")
        /\ \A i \in DOMAIN calls :
               calls[i].call = "setDB.initialLoad" => calls[i].arg = database
        /\ \A f \in DOMAIN database : Get(db, f) = database[f]

C13_Witness ==
    /\ Count("fetchResource") = 1
    /\ database = RecA
    /\ Get(db, "id") = Id1
    /\ Get(db, "database_name") = Str(<<"a">>)
    /\ Get(db, "sqlalchemy_uri") = Str(<<"u">>)
    /\ dbFetched = Null

FetchFailed == handler.name = "fetchResolved" /\ ~handler.result

\* C14: a detail fetch that fails calls addDangerToast once and nothing
\* else: no reducer action, no new fetch; the draft is the one of before the
\* failure and a save that was possible stays possible. A fetch is only
\* started by a run of the [show, database] effect.
C14_FetchFailureOnlyToasts ==
    /\ [](Count("fetchResource") > 0 => PropsEffectRan)
    /\ [](FetchFailed /\ show /\ ~DisableSave(db) /\ saving < MaxPending
              => ENABLED OnSave)
    /\ [][(handler'.name = "fetchResolved" /\ ~handler'.result) =>
              /\ calls' = <<Plain("addDangerToast")>>
              /\ db' = db
              /\ dbFetched' = dbFetched
              /\ Len(fetching') = Len(fetching) - 1
              /\ show' = show
              /\ tabKey' = tabKey
              /\ saving' = saving]_vars

C14_Witness ==
    /\ FetchFailed
    /\ calls = <<Plain("addDangerToast")>>
    /\ show
    /\ db = RecA
    /\ fetching = <<>>

\* C15: a save in edit mode with a draft without a truthy id calls nothing
\* and changes nothing; an update call is made in edit mode only, with the
\* draft's id and the draft without its id; a create call is made in create
\* mode only.
C15_SaveRoutes ==
    /\ [](/\ Count("updateResource") > 0 =>
              /\ handler.name = "onSave"
              /\ database # Null
              /\ calls = <<Call("updateResource", Get(db, "id"),
                                [k \in DOMAIN db \ {"id"} |-> db[k]])>>
              /\ Truthy(calls[1].id)
          /\ Count("createResource") > 0 =>
              /\ handler.name = "onSave"
              /\ database = Null)
    /\ [][(handler'.name = "onSave" /\ database # Null
             /\ ~Truthy(Get(db, "id"))) =>
              /\ calls' = <<>>
              /\ UNCHANGED <<db, saving, show, database, tabKey, dbLoading,
                             dbFetched, fetching>>]_vars

C15_Witness ==
    /\ handler.name = "onSave"
    /\ database = RecB
    /\ ~Truthy(Get(db, "id"))
    /\ calls = <<>>
    /\ saving = 0

\* the handler that ran last closed the modal: the cancel or a successful save
Closing == handler.name = "onClose" \/ SavedOk

\* C16: every close, by cancel or by a successful save, dispatches reset and
\* then calls onHide, once each, onHide last; nothing else calls onHide.
C16_ResetThenHideOnce ==
    /\ Closing =>
           /\ Count("setDB.reset") = 1
           /\ Count("onHide") = 1
           /\ Before("setDB.reset", "onHide")
           /\ calls[Len(calls)].call = "onHide"
    /\ Count("onHide") > 0 => Closing

C16_Witness ==
    /\ handler.name = "onClose"
    /\ calls = <<Plain("setDB.reset"), Plain("onHide")>>
    /\ db = EmptyDraft
    /\ closed

BulkMergeTypes == {"initialLoad", "fetched"}

\* C17 as stated: after a bulk merge the draft's database_name has no
\* leading or trailing whitespace and its sqlalchemy_uri is not undefined.
C17_BulkMergeNormalized ==
    action.type \in BulkMergeTypes =>
        /\ IsStr(Get(db, "database_name"))
        /\ NoOuterWhitespace(Get(db, "database_name"))
        /\ Get(db, "sqlalchemy_uri") # Undefined

\* C17 amended: after a bulk merge every field of the payload is stored as
\* the payload gives it, untrimmed or undefined as it may be; database_name
\* is a trimmed string when the payload has no database_name, and
\* sqlalchemy_uri is not undefined ("" when the draft before had none) when
\* the payload has no sqlalchemy_uri key.
C17_BulkMergeNormalizesBase ==
    action.type \in BulkMergeTypes =>
        /\ \A f \in DOMAIN action.payload : Get(db, f) = action.payload[f]
        /\ "database_name" \notin DOMAIN action.payload =>
               /\ IsStr(Get(db, "database_name"))
               /\ NoOuterWhitespace(Get(db, "database_name"))
        /\ "sqlalchemy_uri" \notin DOMAIN action.payload =>
               Get(db, "sqlalchemy_uri") # Undefined

C17_Witness ==
    /\ action.type = "initialLoad"
    /\ action.payload = RecB
    /\ Get(db, "database_name") = Str(<<" ", "a">>)
    /\ Get(db, "sqlalchemy_uri") = Str(<<>>)

\* C18: a test of the connection, refused or sent, changes neither the
\* draft, the tab, the visibility, the record, the fetch in flight nor the
\* saves in flight, and calls neither onHide nor onDatabaseAdd.
C18_TestConnectionFrame ==
    [][handler'.name = "testConnection" =>
           /\ UNCHANGED <<db, tabKey, show, database, dbLoading, dbFetched,
                          fetching, saving>>
           /\ \A i \in DOMAIN calls' :
                  calls'[i].call \in {"addDangerToast",
                                      "testDatabaseConnection"}]_vars

C18_Witness ==
    /\ handler.name = "testConnection"
    /\ Count("testDatabaseConnection") = 1
    /\ Len(fetching) = 1
    /\ saving = 1
    /\ tabKey # DEFAULT_TAB_KEY

\* C19: fetchResource is called only with the modal shown and a record with
\* a truthy id, and for that id; every fetch in flight is for a truthy id.
C19_FetchOnlyForShownRecordId ==
    /\ \A i \in DOMAIN calls :
           calls[i].call = "fetchResource" =>
               /\ show
               /\ database # Null
               /\ Truthy(Get(database, "id"))
               /\ calls[i].id = Get(database, "id")
    /\ \A i \in DOMAIN fetching : Truthy(fetching[i])

C19_Witness ==
    /\ PropsEffectRan
    /\ show
    /\ database = RecB
    /\ calls = <<Call("setDB.initialLoad", Undefined, RecB),
                 Plain("setTabKey")>>
    /\ fetching = <<>>

====
